---------------------------- MODULE Spec2Model ----------------------------
(***************************************************************************)
(* Digital twin of a sustainable building                                  *)
(* (System_Engineering_Integration/main.py): the sensor-data synthesizer,  *)
(* the HVAC, lighting and solar models, the energy balance, the ECBC and   *)
(* carbon assessment, and DigitalTwin.run_simulation with its data_history.*)
(*                                                                         *)
(* Numbers.  The program computes in floating point; the model computes    *)
(* exactly, in fixed point:                                                *)
(*   - power and energy (kW, kWh per hourly row): integers in units of     *)
(*     1/Scale kW, Scale = 1020 = 17 * 60;                                 *)
(*   - temperature: integers in 0.1 degC (humidity: 0.1 %);                *)
(*   - light: integer lux on a 5-lux grid;                                 *)
(*   - the energy performance index and the emissions: exact rationals     *)
(*     [num, den] in lowest terms (of 1/Scale kWh/m2, of 1/Scale kg).      *)
(* With these units every division of the HVAC, lighting, balance and      *)
(* assessment code is exact on the inputs the model draws.  The one        *)
(* rounding is the solar lux -> kW conversion, rounded down to 1/Scale kW  *)
(* for light levels that are not multiples of 50 lux.                      *)
(***************************************************************************)
EXTENDS Integers, Sequences, FiniteSets, TLC

VARIABLES
    data_history,   \* DigitalTwin.data_history: the combined series of every run
    now,            \* the wall clock read by datetime.now(), in hours
    ret             \* the last call made and what it returned

vars == <<data_history, now, ret>>

-----------------------------------------------------------------------------
(* Arithmetic *)

Scale == 17 * 60

\* k kW (or kWh) in model units.
KW(k) == k * Scale

\* c degrees Celsius (or percent) in tenths.
Deg(c) == c * 10

Abs(x) == IF x < 0 THEN -x ELSE x

Max(a, b) == IF a >= b THEN a ELSE b

Min(a, b) == IF a <= b THEN a ELSE b

\* Python's int(): the quotient n / d (d > 0) truncated toward zero.
Trunc(n, d) == IF n >= 0 THEN n \div d ELSE -((-n) \div d)

RECURSIVE GcdNat(_, _)
GcdNat(a, b) == IF b = 0 THEN a ELSE GcdNat(b, a % b)

GCD(a, b) == GcdNat(Abs(a), Abs(b))

\* The rational n / d (d # 0) in lowest terms with a positive denominator.
Rat(n, d) ==
    LET g == GCD(n, d)
        s == IF d < 0 THEN -1 ELSE 1
    IN  [num |-> s * (n \div g), den |-> s * (d \div g)]

RatOfInt(n) == [num |-> n, den |-> 1]

\* a * b, cancelling across before multiplying.
RatMul(a, b) ==
    LET g1 == GCD(a.num, b.den)
        g2 == GCD(b.num, a.den)
    IN  IF a.num = 0 \/ b.num = 0 THEN RatOfInt(0)
        ELSE [num |-> (a.num \div g1) * (b.num \div g2),
              den |-> (a.den \div g2) * (b.den \div g1)]

RatSub(a, b) ==
    LET g == GCD(a.den, b.den)
    IN  Rat(a.num * (b.den \div g) - b.num * (a.den \div g),
            (a.den \div g) * b.den)

RatLe(a, b) ==
    LET g == GCD(a.den, b.den)
    IN  a.num * (b.den \div g) <= b.num * (a.den \div g)

RatMax(a, b) == IF RatLe(b, a) THEN a ELSE b

RECURSIVE SumRange(_, _, _, _)
\* The sum of field col over rows lo..hi of s, by halves.
SumRange(s, col, lo, hi) ==
    IF lo > hi THEN 0
    ELSE IF lo = hi THEN s[lo][col]
    ELSE LET mid == (lo + hi) \div 2
         IN  SumRange(s, col, lo, mid) + SumRange(s, col, mid + 1, hi)

\* pandas' column sum: the sum of field col over the rows of s (0 when empty).
SumCol(s, col) == SumRange(s, col, 1, Len(s))

-----------------------------------------------------------------------------
(* HVACSystem *)

target_temp == 24

hvac_efficiency_pct == 85

power_rating == 50

default_external_temp == 30

\* HVACSystem.calculate_load.  current_temp and external_temp in 0.1 degC;
\* the result in 1/Scale kW.  0.1 kW per person is Scale \div 10; 0.05 kW
\* per degree is Scale / 200 per 0.1 degC (exact for whole-degree external_temp).
calculate_load(current_temp, occupancy, external_temp) ==
    LET temp_diff == Abs(current_temp - Deg(target_temp))
        occupancy_load == occupancy * (Scale \div 10)
        external_load == ((external_temp - Deg(target_temp)) * Scale) \div 200
        total_load == ((temp_diff * 2 * (Scale \div 10) + occupancy_load + external_load)
                          * 100) \div hvac_efficiency_pct
    IN  Min(total_load, KW(power_rating))

-----------------------------------------------------------------------------
(* LightingSystem *)

fixtures == 100

power_per_fixture_milli == 40

daylight_threshold == 300

\* fixtures * power_per_fixture, the lighting subsystem's full power.
LightingRatedPower == (fixtures * power_per_fixture_milli * Scale) \div 1000

\* calculate_lighting_need without its occupancy test: the lights dim by
\* daylight alone.
calculate_lighting_need_unoccupied(ambient_light, occupancy) ==
    IF ambient_light < daylight_threshold
    THEN (LightingRatedPower * (daylight_threshold - ambient_light))
             \div daylight_threshold
    ELSE 0

\* LightingSystem.calculate_lighting_need; dimming_factor is
\* (daylight_threshold - ambient_light) / daylight_threshold.
calculate_lighting_need(ambient_light, occupancy) ==
    IF occupancy = 0 THEN 0
    ELSE IF ambient_light < daylight_threshold
         THEN (LightingRatedPower * (daylight_threshold - ambient_light))
                  \div daylight_threshold
         ELSE 0

\* LightingSystem.energy_consumption: one value per row.
lighting_energy_consumption(sensor_data) ==
    [i \in 1..Len(sensor_data) |->
        calculate_lighting_need(sensor_data[i].light_level, sensor_data[i].occupancy)]

-----------------------------------------------------------------------------
(* SolarPVSystem *)

capacity == 100

weather_factor_pct == 90

\* One sample of SolarPVSystem.calculate_generation.  irradiance is in
\* 0.1 W/m2 (light_level * 0.1 W/m2, capped at 1000 W/m2); the power is
\* irradiance / 1000 * capacity * weather_factor: 459 / 50 model units per lux.
solar_power(light_level) ==
    LET irradiance == Min(light_level, 10 * 1000)
        per50lux == (capacity * weather_factor_pct * Scale) \div 20000
        power == (irradiance * per50lux) \div 50
    IN  Max(0, power)

calculate_generation(light_data) ==
    [i \in 1..Len(light_data) |-> solar_power(light_data[i])]

-----------------------------------------------------------------------------
(* BuildingEnergyManagement *)

base_load_mean == 3

\* net_energy with the generation added instead of subtracted.
net_energy_added(total_consumption, solar_generation) ==
    total_consumption + solar_generation

\* net_energy = total_consumption - solar_generation, per row.
net_energy_of(total_consumption, solar_generation) ==
    total_consumption - solar_generation

\* BuildingEnergyManagement.calculate_energy_balance; base_noise[i] is the
\* np.random.normal(0, 0.2) drawn for row i.
calculate_energy_balance(sensor_data, base_noise) ==
    LET n == Len(sensor_data)
        hvac_consumption == [i \in 1..n |->
            calculate_load(sensor_data[i].temperature, sensor_data[i].occupancy,
                           Deg(default_external_temp))]
        lighting_consumption == lighting_energy_consumption(sensor_data)
        base_load == [i \in 1..n |-> KW(base_load_mean) + base_noise[i]]
        solar_generation ==
            calculate_generation([i \in 1..n |-> sensor_data[i].light_level])
        total_consumption == [i \in 1..n |->
            hvac_consumption[i] + lighting_consumption[i] + base_load[i]]
        net_energy == [i \in 1..n |->
            net_energy_of(total_consumption[i], solar_generation[i])]
    IN  [i \in 1..n |->
            [timestamp            |-> sensor_data[i].timestamp,
             hvac_consumption     |-> hvac_consumption[i],
             lighting_consumption |-> lighting_consumption[i],
             base_load            |-> base_load[i],
             solar_generation     |-> solar_generation[i],
             total_consumption    |-> total_consumption[i],
             net_energy           |-> net_energy[i],
             grid_import          |-> Max(net_energy[i], 0),
             grid_export          |-> Max(-net_energy[i], 0)]]

-----------------------------------------------------------------------------
(* SensorData *)

base_temp == 25

\* sin(pi * h / 12) for h = 0..23, in units of 1e-4: the double-precision
\* value truncated toward zero (sin(pi/6) evaluates to 0.49999999999999994).
SinPi12 ==
    <<     0,   2588,   4999,   7071,   8660,   9659,  10000,   9659,
        8660,   7071,   4999,   2588,      0,  -2588,  -4999,  -7071,
       -8660,  -9659, -10000,  -9659,  -8660,  -7071,  -4999,  -2588 >>

Sin24(i) == SinPi12[(i % 24) + 1]

\* x to the nearest multiple of 5 (the light grid).
Snap5(x) == ((x + 2) \div 5) * 5

\* SensorData.generate_realistic_data.  clock is datetime.now(); noise[i]
\* holds the random draws of row i (0-based, as in the comprehensions):
\* temp, hum, energy (Gaussian, zero mean), day (the Gaussian added to the
\* daylight curve), night (the night-time Gaussian around 10 lux), poisson.
\* The part of a sine term below the model's resolution is left to the
\* continuous noise added to it.
generate_realistic_data(hours, clock, noise) ==
    LET timestamps == [k \in 1..hours |-> clock - (hours - (k - 1))]
        temp_variation == [k \in 1..hours |->
            Deg(base_temp) + Trunc(5 * 10 * Sin24(k - 1), 10000) + noise[k - 1].temp]
        humidity_data == [k \in 1..hours |->
            Deg(60) - (temp_variation[k] - Deg(base_temp)) + noise[k - 1].hum]
        light_data == [k \in 1..hours |->
            IF (k - 1) % 24 < 12
            THEN Max(0, Snap5(Trunc(800 * Sin24(k - 1), 10000)) + noise[k - 1].day)
            ELSE noise[k - 1].night]
        energy_data == [k \in 1..hours |->
            KW(2) + Trunc(3 * Scale * Sin24(k - 1), 10000) + noise[k - 1].energy]
        occupancy_data == [k \in 1..hours |->
            IF 8 <= (k - 1) % 24 /\ (k - 1) % 24 <= 18
            THEN Max(0, Trunc(20 * Sin24(k - 1), 10000))
            ELSE noise[k - 1].poisson]
    IN  [k \in 1..hours |->
            [timestamp          |-> timestamps[k],
             temperature        |-> temp_variation[k],
             humidity           |-> humidity_data[k],
             light_level        |-> light_data[k],
             energy_consumption |-> energy_data[k],
             occupancy          |-> occupancy_data[k]]]

-----------------------------------------------------------------------------
(* SustainabilityAssessment *)

ecbc_epi_limit == 200

building_area == 5000

emission_factor_pct == 82

weeks_per_year == 52

\* SustainabilityAssessment.calculate_epi: per m2, in 1/Scale kWh.
calculate_epi(annual_consumption) == Rat(annual_consumption, building_area)

\* savings_potential without the clamp at 0.
savings_potential_unclamped(epi) ==
    RatMul(RatSub(epi, RatOfInt(KW(ecbc_epi_limit))), RatOfInt(building_area))

\* max(0, epi - self.ecbc_epi_limit) * self.building_area, in 1/Scale kWh.
savings_potential(epi) ==
    RatMul(RatMax(RatOfInt(0), RatSub(epi, RatOfInt(KW(ecbc_epi_limit)))),
           RatOfInt(building_area))

\* SustainabilityAssessment.assess_ecbc_compliance.
assess_ecbc_compliance(energy_data) ==
    LET weekly_consumption == SumCol(energy_data, "total_consumption")
        annual_consumption == weekly_consumption * weeks_per_year
        epi == calculate_epi(annual_consumption)
        limit == RatOfInt(KW(ecbc_epi_limit))
        compliance == RatLe(epi, limit)
    IN  [annual_consumption_kwh |-> annual_consumption,
         epi_kwh_m2_year        |-> epi,
         ecbc_limit             |-> ecbc_epi_limit,
         compliance             |-> compliance,
         savings_potential      |-> savings_potential(epi)]

\* emissions with the factor taken per 1000 instead of per 100.
emissions_per_mille(energy_kwh) ==
    RatMul(RatOfInt(energy_kwh), Rat(emission_factor_pct, 1000))

\* <energy column>.sum() * self.emission_factor
emissions(energy_kwh) ==
    RatMul(RatOfInt(energy_kwh), Rat(emission_factor_pct, 100))

\* SustainabilityAssessment.calculate_carbon_footprint: kg (tonnes) of CO2
\* as rationals of 1/Scale.
calculate_carbon_footprint(energy_data) ==
    LET net_emissions == emissions(SumCol(energy_data, "grid_import"))
        carbon_offset == emissions(SumCol(energy_data, "grid_export"))
    IN  [gross_emissions_kg_co2      |-> net_emissions,
         carbon_offset_kg_co2        |-> carbon_offset,
         net_emissions_kg_co2        |-> RatSub(net_emissions, carbon_offset),
         annual_net_emissions_tonnes |->
             RatMul(RatSub(net_emissions, carbon_offset), Rat(weeks_per_year, 1000))]

-----------------------------------------------------------------------------
(* DigitalTwin *)

RECURSIVE Merge(_, _)
\* pd.merge(left, right, on='timestamp'): the inner join, in the order of the
\* left rows; a joined row holds the columns of both.
Merge(left, right) ==
    IF Len(left) = 0 THEN << >>
    ELSE LET l == left[1]
             m == SelectSeq(right, LAMBDA r : r.timestamp = l.timestamp)
         IN  [j \in 1..Len(m) |-> l @@ m[j]] \o Merge(Tail(left), right)

\* data_history overwritten by the latest run instead of appended to.
StoreResultsReplacing(history, combined_data) == << combined_data >>

\* self.data_history.append(combined_data)
StoreResults(history, combined_data) == Append(history, combined_data)

\* What DigitalTwin.run_simulation computes from the clock reading and the
\* random draws of its rows: the returned triple and the new data_history.
run_simulation(history, hours, clock, noise) ==
    LET sensor_data == generate_realistic_data(hours, clock, noise)
        energy_data == calculate_energy_balance(sensor_data,
                           [k \in 1..Len(sensor_data) |-> noise[k - 1].base])
        combined_data == Merge(sensor_data, energy_data)
        ecbc_assessment == assess_ecbc_compliance(energy_data)
        carbon_assessment == calculate_carbon_footprint(energy_data)
    IN  [data_history      |-> StoreResults(history, combined_data),
         combined_data     |-> combined_data,
         ecbc_assessment   |-> ecbc_assessment,
         carbon_assessment |-> carbon_assessment]

-----------------------------------------------------------------------------
(* Bounds and the inputs drawn *)

\* The longest horizon simulated: rows 0..19 cover the daylight half, the
\* office hours, the night half and the night hours with Poisson occupancy.
MaxHours == 20

\* The most runs of one DigitalTwin instance.
MaxRuns == 2

\* The longest series handed directly to calculate_energy_balance.
MaxRows == 2

HoursChoices == {0, 1, MaxHours}

\* The random draws of one row: Gaussian temp (0.1 degC), hum (0.1 %),
\* day and night (lux), energy and base (1/Scale kW), and the Poisson count.
NoiseCases ==
    { [temp |-> 0, hum |-> 0, day |-> 0, night |-> 10, energy |-> 0,
       poisson |-> 2, base |-> 0],
      [temp |-> -10, hum |-> -30, day |-> -50, night |-> -5, energy |-> -510,
       poisson |-> 3, base |-> -204],
      [temp |-> 10, hum |-> 30, day |-> 50, night |-> 20, energy |-> 510,
       poisson |-> 0, base |-> 204] }

\* The draws of a whole series: even rows draw even, odd rows draw odd.
NoiseProfile(hours, even, odd) ==
    [i \in 0..(hours - 1) |-> IF i % 2 = 0 THEN even ELSE odd]

TempInputs == {Deg(14), Deg(24), Deg(25), 263, Deg(50)}

OccupancyInputs == {0, 2, 17, 200}

ExternalInputs == {Deg(-10), Deg(0), Deg(24), Deg(30), Deg(45)}

LightInputs == {-5, 0, 150, 295, 300, 800, 12000}

\* Rows handed directly to calculate_energy_balance (timestamps added below).
SensorRowInputs ==
    { [temperature |-> Deg(26), light_level |-> 1000, occupancy |-> 8],
      [temperature |-> Deg(24), light_level |-> 800, occupancy |-> 0],
      [temperature |-> Deg(30), light_level |-> 150, occupancy |-> 17],
      [temperature |-> Deg(25), light_level |-> -5, occupancy |-> 0],
      [temperature |-> Deg(23), light_level |-> -5, occupancy |-> 3],
      [temperature |-> Deg(50), light_level |-> 12000, occupancy |-> 0] }

BaseNoiseInputs == {-204, 0, 204}

SensorSeries(n) ==
    { [i \in 1..n |-> [timestamp |-> i] @@ rows[i]] :
          rows \in [1..n -> SensorRowInputs] }

\* One week of hourly rows.
WeekHours == 24 * 7

WindowLengths == {0, 1, 2, 24, WeekHours, 2 * WeekHours}

\* A balance record with total consumption total kWh and net energy net kWh.
BalanceRow(total, net) ==
    [total_consumption |-> KW(total), net_energy |-> KW(net),
     grid_import |-> Max(KW(net), 0), grid_export |-> Max(-KW(net), 0)]

\* Rows of the record sets handed directly to the assessment (any DataFrame
\* with these columns is accepted; hourly values in kWh).
BalanceRowInputs ==
    { BalanceRow(500, 500), BalanceRow(212, -100), BalanceRow(200, 200),
      BalanceRow(118, 118), BalanceRow(0, 0) }

\* The rows that fill a window after its first two (the sums of the longest
\* window stay within TLC's 32-bit integers).
RestRowInputs == { BalanceRow(118, 118), BalanceRow(10, -1), BalanceRow(0, 0) }

\* A record set of n rows: first, second, and every later row rest.
BalanceRecords(n, first, second, rest) ==
    [i \in 1..n |-> IF i = 1 THEN first ELSE IF i = 2 THEN second ELSE rest]

-----------------------------------------------------------------------------
(* The state machine *)

NoCall == [op |-> "none"]

Init ==
    /\ data_history = << >>
    /\ now = 0
    /\ ret = NoCall

\* dt.run_simulation(hours).  The clock has moved on by the next run.
RunSimulation ==
    /\ Len(data_history) < MaxRuns
    /\ \E hours \in HoursChoices, even \in NoiseCases, odd \in NoiseCases :
          LET r == run_simulation(data_history, hours, now,
                                  NoiseProfile(hours, even, odd))
          IN  /\ data_history' = r.data_history
              /\ ret' = [op |-> "run_simulation", hours |-> hours, error |-> "none",
                         combined_data |-> r.combined_data,
                         ecbc_assessment |-> r.ecbc_assessment,
                         carbon_assessment |-> r.carbon_assessment]
    /\ now' = now + 1

Next == RunSimulation

Spec == Init /\ [][Next]_vars

\* hvac.calculate_load(current_temp, occupancy, external_temp)
CallCalculateLoad ==
    /\ ret = NoCall
    /\ \E t \in TempInputs, occ \in OccupancyInputs, ext \in ExternalInputs :
          ret' = [op |-> "calculate_load", current_temp |-> t, occupancy |-> occ,
                  external_temp |-> ext, result |-> calculate_load(t, occ, ext)]
    /\ UNCHANGED <<data_history, now>>

\* lighting.calculate_lighting_need(ambient_light, occupancy)
CallCalculateLightingNeed ==
    /\ ret = NoCall
    /\ \E light \in LightInputs, occ \in OccupancyInputs :
          ret' = [op |-> "calculate_lighting_need", ambient_light |-> light,
                  occupancy |-> occ, result |-> calculate_lighting_need(light, occ)]
    /\ UNCHANGED <<data_history, now>>

\* bems.calculate_energy_balance(sensor_data)
CallCalculateEnergyBalance ==
    /\ ret = NoCall
    /\ \E n \in 0..MaxRows :
          \E sensor_data \in SensorSeries(n), base_noise \in [1..n -> BaseNoiseInputs] :
              ret' = [op |-> "calculate_energy_balance", sensor_data |-> sensor_data,
                      base_noise |-> base_noise,
                      result |-> calculate_energy_balance(sensor_data, base_noise)]
    /\ UNCHANGED <<data_history, now>>

\* sensors.generate_realistic_data(hours)
CallGenerateRealisticData ==
    /\ ret = NoCall
    /\ \E hours \in HoursChoices, even \in NoiseCases, odd \in NoiseCases :
          ret' = [op |-> "generate_realistic_data", hours |-> hours,
                  result |-> generate_realistic_data(hours, now,
                                 NoiseProfile(hours, even, odd))]
    /\ UNCHANGED <<data_history, now>>

\* sustainability.assess_ecbc_compliance(energy_data)
CallAssessEcbcCompliance ==
    /\ ret = NoCall
    /\ \E n \in WindowLengths, a \in BalanceRowInputs, b \in BalanceRowInputs,
          c \in RestRowInputs :
          LET energy_data == BalanceRecords(n, a, b, c)
          IN  ret' = [op |-> "assess_ecbc_compliance", energy_data |-> energy_data,
                      error |-> "none", result |-> assess_ecbc_compliance(energy_data)]
    /\ UNCHANGED <<data_history, now>>

\* sustainability.calculate_carbon_footprint(energy_data)
CallCalculateCarbonFootprint ==
    /\ ret = NoCall
    /\ \E n \in WindowLengths, a \in BalanceRowInputs, b \in BalanceRowInputs,
          c \in RestRowInputs :
          LET energy_data == BalanceRecords(n, a, b, c)
          IN  ret' = [op |-> "calculate_carbon_footprint", energy_data |-> energy_data,
                      error |-> "none", result |-> calculate_carbon_footprint(energy_data)]
    /\ UNCHANGED <<data_history, now>>

NextCall ==
    \/ CallCalculateLoad
    \/ CallCalculateLightingNeed
    \/ CallCalculateEnergyBalance
    \/ CallGenerateRealisticData
    \/ CallAssessEcbcCompliance
    \/ CallCalculateCarbonFootprint

\* The components called directly on a fresh instance.  A behaviour makes one
\* call: the components keep no state between calls, so a second call would
\* reach no result the first cannot.
SpecCalls == Init /\ [][NextCall]_vars

-----------------------------------------------------------------------------
(* Properties *)

IsRun == ret.op = "run_simulation"

IsBalance == ret.op = "calculate_energy_balance"

IsEcbc == ret.op = "assess_ecbc_compliance"

IsCarbon == ret.op = "calculate_carbon_footprint"

\* C1: every row of calculate_energy_balance has total_consumption = hvac +
\* lighting + base_load, net_energy = total_consumption - solar_generation,
\* grid_import = max(net_energy, 0), grid_export = max(-net_energy, 0); import
\* and export are never both nonzero, and both are zero exactly when
\* net_energy is 0.
EnergyBalanceRowsConsistent ==
    IsBalance =>
        /\ Len(ret.result) = Len(ret.sensor_data)
        /\ \A i \in 1..Len(ret.result) :
              LET r == ret.result[i]
              IN  /\ r.total_consumption =
                         r.hvac_consumption + r.lighting_consumption + r.base_load
                  /\ r.net_energy = r.total_consumption - r.solar_generation
                  /\ r.grid_import = (IF r.net_energy > 0 THEN r.net_energy ELSE 0)
                  /\ r.grid_export = (IF r.net_energy < 0 THEN -r.net_energy ELSE 0)
                  /\ ~(r.grid_import # 0 /\ r.grid_export # 0)
                  /\ (r.grid_import = 0 /\ r.grid_export = 0) <=> (r.net_energy = 0)

\* A balance with an exporting row, an importing row or a row in exact
\* balance, and base-load noise drawn.
EnergyBalanceWitness ==
    /\ IsBalance
    /\ Len(ret.result) = 2
    /\ ret.result[1].grid_export > 0
    /\ ret.result[1].solar_generation > 0
    /\ ret.result[2].net_energy = 0
    /\ ret.result[2].total_consumption > 0

\* C2: calculate_load returns a value in [0, power_rating] for every
\* current_temp, occupancy and external_temp.
HvacLoadClamped ==
    ret.op = "calculate_load" =>
        (0 <= ret.result /\ ret.result <= KW(power_rating))

\* C3: lighting load is 0 whenever occupancy is 0, whatever the ambient light:
\* in calculate_lighting_need and in every row of the energy balance.
LightsOffWhenUnoccupied ==
    /\ (ret.op = "calculate_lighting_need" /\ ret.occupancy = 0) => ret.result = 0
    /\ IsBalance =>
           \A i \in 1..Len(ret.result) :
               ret.sensor_data[i].occupancy = 0 =>
                   ret.result[i].lighting_consumption = 0

\* A balance over a series with occupancy 0 in every row, one row darker than
\* the daylight threshold (negative light) and one brighter.
LightsOffWitness ==
    /\ IsBalance
    /\ Len(ret.result) = 2
    /\ \A i \in 1..2 : ret.sensor_data[i].occupancy = 0
    /\ ret.sensor_data[1].light_level < 0
    /\ ret.sensor_data[2].light_level > daylight_threshold

\* C4: for every series the synthesizer produces, every row of the energy
\* balance has 0 <= lighting_consumption <= fixtures * power_per_fixture.
LightingWithinRatedCapacity ==
    IsRun =>
        \A i \in 1..Len(ret.combined_data) :
            /\ 0 <= ret.combined_data[i].lighting_consumption
            /\ ret.combined_data[i].lighting_consumption <= LightingRatedPower

\* C5: every observation of a generated series of horizon >= 1 has
\* light_level >= 0 and an integer occupancy >= 0, in the daytime half and in
\* the night half of the cycle.
ObservationsNonNegative ==
    (ret.op = "generate_realistic_data" /\ ret.hours >= 1) =>
        \A i \in 1..Len(ret.result) :
            /\ ret.result[i].light_level >= 0
            /\ ret.result[i].occupancy \in Nat

\* C6: an empty balance-record set (a horizon of 0) through run_simulation
\* yields an insufficient-data error and never a result with compliance true.
EmptyWindowIsInsufficientData ==
    (IsRun /\ Len(ret.combined_data) = 0) =>
        /\ ret.error = "insufficient_data"
        /\ ret.ecbc_assessment.compliance # TRUE

\* C7: the annual extrapolation factor is weeks-per-year divided by
\* weeks-in-window: annual_consumption = sum * 52 * 168 / H for a window of H
\* rows, and the carbon annualization uses the same factor.
ExtrapolationFactorScalesWithWindow ==
    LET H == Len(ret.energy_data)
        factor == (weeks_per_year * WeekHours) \div H
    IN  /\ (IsEcbc /\ H > 0 /\ (weeks_per_year * WeekHours) % H = 0) =>
               LET weekly == SumCol(ret.energy_data, "total_consumption")
               IN  weekly > 0 =>
                       /\ ret.result.annual_consumption_kwh % weekly = 0
                       /\ ret.result.annual_consumption_kwh \div weekly = factor
        /\ (IsCarbon /\ H > 0 /\ (weeks_per_year * WeekHours) % H = 0) =>
               ret.result.annual_net_emissions_tonnes =
                   RatMul(ret.result.net_emissions_kg_co2, Rat(factor, 1000))

\* The weekly total of a record set, and r (a rational whose denominator
\* divides the area) times the building area.
WeeklyTotal == SumCol(ret.energy_data, "total_consumption")

TimesArea(r) == r.num * (building_area \div r.den)

\* C8: for a one-week record set, epi = 52 * sum(total_consumption) /
\* building_area, compliance holds iff epi <= ecbc_epi_limit, and
\* savings_potential = max(0, epi - limit) * building_area, which is 0 exactly
\* when compliant; a weekly 20000 kWh gives annual 1040000, epi 208,
\* compliance false and savings 40000.
EcbcAssessmentOfOneWeek ==
    (IsEcbc /\ Len(ret.energy_data) = WeekHours) =>
        LET r == ret.result
            epi == r.epi_kwh_m2_year
            excess == weeks_per_year * WeeklyTotal - KW(ecbc_epi_limit) * building_area
        IN  /\ r.annual_consumption_kwh = weeks_per_year * WeeklyTotal
            /\ building_area % epi.den = 0
            /\ TimesArea(epi) = weeks_per_year * WeeklyTotal
            /\ r.compliance <=> (epi.num <= KW(ecbc_epi_limit) * epi.den)
            /\ r.savings_potential = RatOfInt(IF excess > 0 THEN excess ELSE 0)
            /\ (r.savings_potential.num = 0) <=> r.compliance
            /\ WeeklyTotal = KW(20000) =>
                   /\ r.annual_consumption_kwh = KW(1040000)
                   /\ epi = RatOfInt(KW(208))
                   /\ r.compliance = FALSE
                   /\ r.savings_potential = RatOfInt(KW(40000))

\* The one-week record set of 20000 kWh, assessed non-compliant.
EcbcScenarioWitness ==
    /\ IsEcbc
    /\ Len(ret.energy_data) = WeekHours
    /\ WeeklyTotal = KW(20000)
    /\ ~ret.result.compliance
    /\ ret.result.savings_potential.num > 0

\* r, a rational whose denominator divides 50, in fiftieths.
Fiftieths(r) == r.num * (50 \div r.den)

\* C9: gross_emissions = sum(grid_import) * emission_factor, carbon_offset =
\* sum(grid_export) * emission_factor, net_emissions = gross - offset, negative
\* whenever the export exceeds the import; import 500, export 100 and factor
\* 0.82 give 410, 82 and 328.  (emission_factor = 82/100 = 41/50.)
CarbonFootprintOfGridExchange ==
    IsCarbon =>
        LET r == ret.result
            imported == SumCol(ret.energy_data, "grid_import")
            exported == SumCol(ret.energy_data, "grid_export")
            half == emission_factor_pct \div 2
        IN  /\ \A f \in {r.gross_emissions_kg_co2, r.carbon_offset_kg_co2,
                         r.net_emissions_kg_co2} : f.den > 0 /\ 50 % f.den = 0
            /\ Fiftieths(r.gross_emissions_kg_co2) = half * imported
            /\ Fiftieths(r.carbon_offset_kg_co2) = half * exported
            /\ Fiftieths(r.net_emissions_kg_co2) =
                   Fiftieths(r.gross_emissions_kg_co2) - Fiftieths(r.carbon_offset_kg_co2)
            /\ exported > imported => r.net_emissions_kg_co2.num < 0
            /\ (imported = KW(500) /\ exported = KW(100)) =>
                   /\ r.gross_emissions_kg_co2 = RatOfInt(KW(410))
                   /\ r.carbon_offset_kg_co2 = RatOfInt(KW(82))
                   /\ r.net_emissions_kg_co2 = RatOfInt(KW(328))

\* The footprint of a window importing 500 kWh and exporting 100 kWh.
CarbonScenarioWitness ==
    /\ IsCarbon
    /\ SumCol(ret.energy_data, "grid_import") = KW(500)
    /\ SumCol(ret.energy_data, "grid_export") = KW(100)
    /\ ret.result.net_emissions_kg_co2.num > 0

\* C10: every run_simulation call appends the combined series it returns to
\* data_history and leaves the earlier entries as they were, in their order:
\* after n calls the history holds the n returned series in call order.
HistoryGrowsByReturnedSeries ==
    [][ /\ Len(data_history') = Len(data_history) + 1
        /\ SubSeq(data_history', 1, Len(data_history)) = data_history
        /\ data_history'[Len(data_history')] = ret'.combined_data ]_vars

\* Two runs made, returning different series, both kept in call order.
HistoryWitness ==
    /\ IsRun
    /\ Len(data_history) = 2
    /\ data_history[1] # data_history[2]
    /\ Len(data_history[1]) = MaxHours
    /\ data_history[2] = ret.combined_data

=============================================================================
